---------------------------- MODULE Spec2Model ----------------------------
(***************************************************************************)
(* Model of src/json_data_cleaning.ipynb: DataScraper, DataCleaner,        *)
(* DataProcessor and the driver cell that runs them in sequence.           *)
(*                                                                         *)
(* Text is a sequence of one-character strings, so that the regular        *)
(* expression of clean_column and the ", "-join act on characters.         *)
(* Every Python value is a tagged record; the tag is the Python type.      *)
(***************************************************************************)
EXTENDS Integers, Sequences, FiniteSets, TLC

VARIABLES
    cc_pc,      \* clean_column: position ("join", "loop", "done", "idle")
    cc_cells,   \* clean_column: the column's nested cells, in row order
    cc_col,     \* clean_column: self.df[column_name] after the assignment of line 153
    cc_passes,  \* clean_column: iterations of the while-loop of lines 154-157 so far
    fl_pc,      \* convert_data_to_df: position ("frames", "concat", "done", "error", "idle")
    fl_records, \* convert_data_to_df: the records of the section, each its values in key order
    fl_frames,  \* convert_data_to_df: rows of the frame built for each record so far
    fl_rows,    \* convert_data_to_df: rows of self.df
    fl_err,     \* convert_data_to_df: the exception raised, or "none"
    pc,         \* driver cell: the step that runs next
    status,     \* response.status_code
    response,   \* the records the server sends under "Records"
    data,       \* DataScraper.data
    df,         \* the DataFrame handed from stage to stage
    err,        \* the exception that ended the cell, or "none"
    calls,      \* the methods the driver cell has called, in order
    csv         \* the rows written by export_data

ccVars   == <<cc_pc, cc_cells, cc_col, cc_passes>>
flVars   == <<fl_pc, fl_records, fl_frames, fl_rows, fl_err>>
pipeVars == <<pc, status, response, data, df, err, calls, csv>>
vars     == <<ccVars, flVars, pipeVars>>

(***************************************************************************)
(* Bounds of the model.                                                    *)
(***************************************************************************)
MaxCells   == 2
MaxPasses  == 4
MaxRecords == 2
MaxFields  == 2

(***************************************************************************)
(* Python values.                                                          *)
(***************************************************************************)
PyInt(n)  == [t |-> "int", n |-> n]
PyBool(b) == [t |-> "bool", b |-> b]
Str(s)    == [t |-> "str", s |-> s]
Dict(d)   == [t |-> "dict", d |-> d]
List(l)   == [t |-> "list", l |-> l]
PyNone    == [t |-> "None"]
NaN       == [t |-> "nan"]
Absent    == [t |-> "absent"]

Range(f)  == {f[i] : i \in DOMAIN f}

SeqsUpTo(S, n) == UNION {[1..k -> S] : k \in 0..n}

(***************************************************************************)
(* Text helpers.                                                           *)
(***************************************************************************)
NAN  == <<"n", "a", "n">>
NONE == <<"N", "o", "n", "e">>
SEP  == <<",", " ">>

MatchesAt(s, i, p) ==
    /\ i + Len(p) - 1 <= Len(s)
    /\ \A k \in 1..Len(p) : s[i + k - 1] = p[k]

Contains(s, p) == \E i \in 1..Len(s) : MatchesAt(s, i, p)

(***************************************************************************)
(* The pattern of line 155: '^nan, |, nan, | nan |nan|, nan'.  Python's    *)
(* re tries the alternatives in order at each position, leftmost first;    *)
(* '^' matches at the start of the text only.                              *)
(***************************************************************************)
Alt1 == NAN \o SEP
Alt2 == SEP \o NAN \o SEP
Alt3 == <<" ">> \o NAN \o <<" ">>
Alt4 == NAN
Alt5 == SEP \o NAN

\* The pattern with its '^' binding the whole alternation, '^(nan, |, nan, |...)'.
MatchLenAnchored(s, i) ==
    IF i # 1 THEN 0
    ELSE IF MatchesAt(s, i, Alt1) THEN Len(Alt1)
    ELSE IF MatchesAt(s, i, Alt2) THEN Len(Alt2)
    ELSE IF MatchesAt(s, i, Alt3) THEN Len(Alt3)
    ELSE IF MatchesAt(s, i, Alt4) THEN Len(Alt4)
    ELSE IF MatchesAt(s, i, Alt5) THEN Len(Alt5)
    ELSE 0

MatchLen(s, i) ==
    IF i = 1 /\ MatchesAt(s, i, Alt1) THEN Len(Alt1)
    ELSE IF MatchesAt(s, i, Alt2) THEN Len(Alt2)
    ELSE IF MatchesAt(s, i, Alt3) THEN Len(Alt3)
    ELSE IF MatchesAt(s, i, Alt4) THEN Len(Alt4)
    ELSE IF MatchesAt(s, i, Alt5) THEN Len(Alt5)
    ELSE 0

RECURSIVE SubFrom(_, _)
SubFrom(s, i) ==
    IF i > Len(s) THEN <<>>
    ELSE LET m == MatchLen(s, i)
         IN  IF m > 0 THEN SubFrom(s, i + m)
             ELSE <<s[i]>> \o SubFrom(s, i + 1)

\* re.sub(pattern, '', s): every non-overlapping match, left to right, removed.
ReSub(s) == SubFrom(s, 1)

\* Series.str.replace(..., regex=True): per cell; a NaN cell stays NaN.
StrReplace(col) ==
    [i \in DOMAIN col |-> IF col[i].t = "str" THEN Str(ReSub(col[i].s)) ELSE col[i]]

\* ', nan' in Series.to_string(): each cell is printed on a line of its own
\* (a NaN cell as "NaN"), so the text occurs iff it occurs in some cell.
ToStringHasNan(col) ==
    \E i \in DOMAIN col : col[i].t = "str" /\ Contains(col[i].s, SEP \o NAN)

(***************************************************************************)
(* pd.DataFrame(column_data) for a list of dicts, lines 149-153.           *)
(* A dict is a function over KeyOrder; Absent marks a key the dict lacks.  *)
(***************************************************************************)
KeyOrder == <<"name", "email", "phone">>
Keys     == Range(KeyOrder)

DictKeys(d) == SelectSeq(KeyOrder, LAMBDA k : d[k] # Absent)

\* Columns of the frame: the union of the keys, in first-seen order.
RECURSIVE UnionKeys(_, _)
UnionKeys(dicts, acc) ==
    IF dicts = <<>> THEN acc
    ELSE UnionKeys(Tail(dicts),
                   acc \o SelectSeq(DictKeys(Head(dicts)),
                                    LAMBDA k : k \notin Range(acc)))

FrameColumns(dicts) == UnionKeys(dicts, <<>>)

\* A key a dict lacks is NaN in the frame.
FrameCell(d, k) == IF d[k] = Absent THEN NaN ELSE d[k]

\* dtype inference of one frame column: None and NaN alone make a float64
\* column (None becomes NaN); any str, or None alone, keeps it object.
IsFloatColumn(dicts, k) ==
    /\ \A i \in DOMAIN dicts : FrameCell(dicts[i], k).t # "str"
    /\ \E i \in DOMAIN dicts : FrameCell(dicts[i], k).t = "nan"

\* astype(str) of one cell.
AsStr(v, isFloat) ==
    CASE v.t = "str"  -> v.s
      [] v.t = "nan"  -> NAN
      [] v.t = "None" -> IF isFloat THEN NAN ELSE NONE

RECURSIVE JoinText(_)
JoinText(parts) ==
    IF parts = <<>> THEN <<>>
    ELSE IF Len(parts) = 1 THEN parts[1]
    ELSE parts[1] \o SEP \o JoinText(Tail(parts))

\* column_df.astype(str).apply(lambda x: ", ".join(x), axis=1): one text per
\* row; a frame without columns (every dict empty) joins to "" in every row.
JoinedFrame(dicts) ==
    LET cols == FrameColumns(dicts)
    IN  [i \in DOMAIN dicts |->
            Str(JoinText([j \in DOMAIN cols |->
                    AsStr(FrameCell(dicts[i], cols[j]),
                          IsFloatColumn(dicts, cols[j]))]))]

\* The while-loop of lines 154-157 run to its break.
RECURSIVE CleanupLoop(_)
CleanupLoop(col) ==
    LET c == StrReplace(col)
    IN  IF ToStringHasNan(c) THEN CleanupLoop(c) ELSE c

(***************************************************************************)
(* clean_column, lines 148-157, step by step on a table whose index is     *)
(* the default 0..n-1 in row order, so that the assignment of line 153     *)
(* puts row i of column_df into row i of self.df.                          *)
(***************************************************************************)
FieldVals(k) ==
    CASE k = "name"  -> {PyNone, Str(<<"n">>), Str(<<"x", ",", " ", "n">>)}
      [] k = "email" -> {Absent, Str(<<"x">>)}
      [] k = "phone" -> {Absent, Str(<<"a", "n">>)}

Dicts == {d \in [Keys -> UNION {FieldVals(k) : k \in Keys}] :
            \A k \in Keys : d[k] \in FieldVals(k)}

\* The variables of the other stages while one stage is examined alone.
FlattenIdle ==
    /\ fl_pc = "idle"
    /\ fl_records = <<>>
    /\ fl_frames = <<>>
    /\ fl_rows = 0
    /\ fl_err = "none"

PipeIdle ==
    /\ pc = "idle"
    /\ status = 200
    /\ response = <<>>
    /\ data = PyNone
    /\ df = <<>>
    /\ err = "none"
    /\ calls = <<>>
    /\ csv = PyNone

CleanupIdle ==
    /\ cc_pc = "idle"
    /\ cc_cells = <<>>
    /\ cc_col = <<>>
    /\ cc_passes = 0

CleanupInit ==
    /\ cc_pc = "join"
    /\ cc_cells \in SeqsUpTo(Dicts, MaxCells)
    /\ cc_col = <<>>
    /\ cc_passes = 0

\* lines 149-153
JoinColumn ==
    /\ cc_pc = "join"
    /\ cc_col' = JoinedFrame(cc_cells)
    /\ cc_pc' = IF cc_cells = <<>>
              THEN "aborted"  \* line 155: no .str accessor on the empty join
              ELSE "loop"
    /\ UNCHANGED <<cc_cells, cc_passes, flVars, pipeVars>>

\* lines 154-157: one iteration of the while-loop
CleanupPass ==
    /\ cc_pc = "loop"
    /\ cc_col' = StrReplace(cc_col)
    /\ cc_passes' = IF cc_passes < MaxPasses THEN cc_passes + 1 ELSE cc_passes
    /\ cc_pc' = IF ToStringHasNan(StrReplace(cc_col)) THEN "loop" ELSE "done"
    /\ UNCHANGED <<cc_cells, flVars, pipeVars>>

CleanupNext == JoinColumn \/ CleanupPass

InitCleanup == CleanupInit /\ FlattenIdle /\ PipeIdle

SpecCleanup == InitCleanup /\ [][CleanupNext]_vars

\* The loop is sequential code: an iteration that can run does run.
SpecCleanupFair == SpecCleanup /\ WF_vars(CleanupPass)

(***************************************************************************)
(* convert_data_to_df, lines 84-88: one frame per record, then pd.concat.  *)
(* A record is the sequence of its values in key order.                    *)
(***************************************************************************)
EmptyDict == [k \in Keys |-> Absent]
DictName  == [EmptyDict EXCEPT !["name"] = Str(<<"x">>)]
DictBoth  == [DictName EXCEPT !["email"] = Str(<<"x">>)]

ListVals == {List(<<>>), List(<<Str(<<"v">>)>>), List(<<Str(<<"v">>), Str(<<"w">>)>>)}

FlatVals == {PyInt(1), PyNone, Dict(EmptyDict), Dict(DictName), Dict(DictBoth)} \cup ListVals

Sized(v) == v.t \in {"list", "dict", "str"}

Size(v) ==
    CASE v.t = "list" -> Len(v.l)
      [] v.t = "dict" -> Len(DictKeys(v.d))
      [] v.t = "str"  -> Len(v.s)

MaxOf(S) == IF S = {} THEN 0 ELSE CHOOSE m \in S : \A x \in S : x <= m

RECURSIVE Sum(_)
Sum(ns) == IF ns = <<>> THEN 0 ELSE Head(ns) + Sum(Tail(ns))

\* pd.DataFrame.from_dict(d, orient='index').T of line 88: the rows of the
\* frame, or the exception.  from_dict looks at the type of the first value:
\* a dict makes d a nested {row: {column: value}} mapping, a list makes the
\* values rows of a list of lists, anything else makes them one column.
FromDictT(vals) ==
    IF vals = <<>> THEN [err |-> "none", rows |-> 0]
    ELSE IF vals[1].t = "dict"
    THEN IF \A i \in DOMAIN vals : vals[i].t = "dict"
         THEN [err |-> "none",
               rows |-> Len(FrameColumns([i \in DOMAIN vals |-> vals[i].d]))]
         ELSE [err |-> "AttributeError", rows |-> 0]
    ELSE IF vals[1].t = "list"
    THEN IF \A i \in DOMAIN vals : Sized(vals[i])
         THEN [err |-> "none", rows |-> MaxOf({Size(vals[i]) : i \in DOMAIN vals})]
         ELSE [err |-> "TypeError", rows |-> 0]
    ELSE [err |-> "none", rows |-> 1]

FlattenInit ==
    /\ fl_pc = "frames"
    /\ fl_records \in SeqsUpTo(SeqsUpTo(FlatVals, MaxFields), MaxRecords)
    /\ fl_frames = <<>>
    /\ fl_rows = 0
    /\ fl_err = "none"

\* line 88, the list comprehension: the frame of the next record
FlattenRecord ==
    /\ fl_pc = "frames"
    /\ Len(fl_frames) < Len(fl_records)
    /\ LET f == FromDictT(fl_records[Len(fl_frames) + 1])
       IN  IF f.err = "none"
           THEN /\ fl_frames' = Append(fl_frames, f.rows)
                /\ UNCHANGED <<fl_pc, fl_err>>
           ELSE /\ fl_pc' = "error"
                /\ fl_err' = f.err
                /\ UNCHANGED fl_frames
    /\ UNCHANGED <<fl_records, fl_rows, ccVars, pipeVars>>

\* line 88, pd.concat(..., ignore_index=True); it raises on an empty list
ConcatFrames ==
    /\ fl_pc = "frames"
    /\ Len(fl_frames) = Len(fl_records)
    /\ IF fl_frames = <<>>
       THEN /\ fl_pc' = "error"
            /\ fl_err' = "ValueError"
            /\ UNCHANGED fl_rows
       ELSE /\ fl_pc' = "done"
            /\ fl_rows' = Sum(fl_frames)
            /\ UNCHANGED fl_err
    /\ UNCHANGED <<fl_records, fl_frames, ccVars, pipeVars>>

FlattenNext == FlattenRecord \/ ConcatFrames

InitFlatten == FlattenInit /\ CleanupIdle /\ PipeIdle

SpecFlatten == InitFlatten /\ [][FlattenNext]_vars

(***************************************************************************)
(* The driver cell, lines 225-248, on a table that carries the identifier  *)
(* column and one column for each way clean_data treats a nested column:   *)
(* contact (clean_column, first branch), eventList (clean_column, second   *)
(* branch; backgroundInformationList, addressList and otherReferenceList   *)
(* go the same way) and topics (remove_data_from_column; uniqueMapUrl goes *)
(* the same way).  Every record starts with its noticeId, a scalar, so     *)
(* convert_data_to_df makes one row of it.                                 *)
(***************************************************************************)
ContactA == [name |-> Str(<<"A">>), email |-> PyNone, phone |-> Absent]

IdVals      == {PyInt(1), PyInt(2), PyBool(TRUE), Str(<<"x">>), PyNone}
ContactVals == {PyNone, Dict(ContactA)}
EventVals   == {List(<<>>), List(<<Dict(DictName)>>)}
TopicVals   == ListVals

\* Every identifier, contact and topics value with an empty eventList, and
\* the records with a non-empty one.
Records ==
    [noticeId : IdVals, contact : ContactVals,
     eventList : {List(<<>>)}, topics : TopicVals]
    \cup [noticeId : {PyInt(1), PyInt(2)}, contact : {PyNone},
          eventList : EventVals, topics : {List(<<>>)}]

RecordValues(r) == <<r.noticeId, r.contact, r.eventList, r.topics>>

\* isinstance(x, (int, str)).
IsInstanceIntOrStr(v) == v.t \in {"int", "bool", "str"}

\* isinstance(x, int), line 107; bool is a subclass of int.
IsInstanceInt(v) == v.t \in {"int", "bool"}

\* The integer an int or a bool is (True == 1).
IntOf(v) == IF v.t = "bool" THEN (IF v.b THEN 1 ELSE 0) ELSE v.n

\* Python's == on two cells, as sorting and drop_duplicates use it.
PyEq(a, b) ==
    IF IsInstanceInt(a) /\ IsInstanceInt(b) THEN IntOf(a) = IntOf(b) ELSE a = b

Cells(r) == <<r.noticeId, r.contact, r.eventList, r.topics>>

RowEq(r1, r2) == \A c \in 1..4 : PyEq(Cells(r1)[c], Cells(r2)[c])

Labels(frame) == {frame[p].idx : p \in DOMAIN frame}

Init ==
    /\ pc = "scrape_data"
    /\ status \in {200, 404, 500}
    /\ response \in SeqsUpTo(Records, MaxRecords)
    /\ status # 200 => response = <<>>
    /\ data = PyNone
    /\ df = <<>>
    /\ err = "none"
    /\ calls = <<>>
    /\ csv = PyNone
    /\ CleanupIdle
    /\ FlattenIdle

\* lines 67-77: data stays None unless the status is 200
ScrapeData ==
    /\ pc = "scrape_data"
    /\ calls' = Append(calls, "scrape_data")
    /\ data' = IF status = 200 THEN List(response) ELSE data
    /\ pc' = "convert_data_to_df"
    /\ UNCHANGED <<status, response, df, err, csv, ccVars, flVars>>

\* lines 79-88; the driver calls it whatever scrape_data found
ConvertDataToDf ==
    /\ pc = "convert_data_to_df"
    /\ calls' = Append(calls, "convert_data_to_df")
    /\ IF data = PyNone
       THEN \* line 84: None has no keys()
            /\ err' = "AttributeError"
            /\ pc' = "aborted"
            /\ UNCHANGED df
       ELSE IF data.l = <<>>
       THEN \* line 88: pd.concat of an empty list
            /\ err' = "ValueError"
            /\ pc' = "aborted"
            /\ UNCHANGED df
       ELSE LET bad == {i \in DOMAIN data.l :
                            FromDictT(RecordValues(data.l[i])).err # "none"}
            IN  IF bad # {}
                THEN /\ err' = FromDictT(RecordValues(data.l[CHOOSE i \in bad :
                                    \A j \in bad : i <= j])).err
                     /\ pc' = "aborted"
                     /\ UNCHANGED df
                ELSE /\ df' = [i \in DOMAIN data.l |->
                                [idx |-> i - 1,
                                 noticeId |-> data.l[i].noticeId,
                                 contact |-> data.l[i].contact,
                                 eventList |-> data.l[i].eventList,
                                 topics |-> data.l[i].topics]]
                     /\ pc' = "clean_data"
                     /\ UNCHANGED err
    /\ UNCHANGED <<status, response, data, csv, ccVars, flVars>>

\* line 107: the rows whose noticeId is an int, with their index labels
FilteredFrame(frame) == SelectSeq(frame, LAMBDA r : IsInstanceInt(r.noticeId))

FilterIds ==
    /\ pc = "clean_data"
    /\ calls' = Append(calls, "clean_data")
    /\ df' = FilteredFrame(df)
    /\ pc' = "sort_values"
    /\ UNCHANGED <<status, response, data, err, csv, ccVars, flVars>>

\* line 109: sort_values with the default kind ('quicksort'), which orders
\* the rows by noticeId and promises no order among equal ones.
IsSortedById(frame) ==
    \A p, q \in DOMAIN frame :
        p < q => IntOf(frame[p].noticeId) <= IntOf(frame[q].noticeId)

SortedFrames(frame) ==
    {[p \in DOMAIN frame |-> frame[f[p]]] : f \in Permutations(DOMAIN frame)}

SortValues ==
    /\ pc = "sort_values"
    /\ \E sorted \in SortedFrames(df) :
          /\ IsSortedById(sorted)
          /\ df' = sorted
    /\ pc' = "clean_column_contact"
    /\ UNCHANGED <<status, response, data, err, calls, csv, ccVars, flVars>>

\* line 153 and the loop after it: the joined texts js carry the labels
\* 0..Len(js)-1, and the assignment gives each row of self.df the text whose
\* label is the row's own index label, or NaN when there is none.
AssignedColumn(frame, js) ==
    CleanupLoop([p \in DOMAIN frame |->
                    IF frame[p].idx + 1 <= Len(js) THEN js[frame[p].idx + 1] ELSE NaN])

\* lines 134-139: the cells in row order, null made {}, dicts only
ContactData(frame) ==
    LET column_list == [p \in DOMAIN frame |->
                            IF frame[p].contact.t \in {"None", "nan"}
                            THEN Dict(EmptyDict) ELSE frame[p].contact]
        column_data == SelectSeq(column_list, LAMBDA x : x.t = "dict")
    IN  [i \in DOMAIN column_data |-> column_data[i].d]

CleanColumnContact ==
    /\ pc = "clean_column_contact"
    /\ IF df = <<>>
       THEN \* line 155: the join of a frame without rows is an empty float64
            \* Series, which has no .str accessor
            /\ err' = "AttributeError"
            /\ pc' = "aborted"
            /\ UNCHANGED df
       ELSE /\ LET col == AssignedColumn(df, JoinedFrame(ContactData(df)))
               IN  df' = [p \in DOMAIN df |-> [df[p] EXCEPT !.contact = col[p]]]
            /\ pc' = "clean_column_eventList"
            /\ UNCHANGED err
    /\ UNCHANGED <<status, response, data, calls, csv, ccVars, flVars>>

\* lines 141-146: self.df[column_name][i] looks the label i up
EventData(frame) ==
    [i \in 1..Len(frame) |->
        LET cell == frame[CHOOSE p \in DOMAIN frame : frame[p].idx = i - 1].eventList
        IN  IF cell.l = <<>> THEN EmptyDict ELSE cell.l[1].d]

CleanColumnEventList ==
    /\ pc = "clean_column_eventList"
    /\ IF \E i \in 0..(Len(df) - 1) : i \notin Labels(df)
       THEN \* line 141: no row carries the label i
            /\ err' = "KeyError"
            /\ pc' = "aborted"
            /\ UNCHANGED df
       ELSE /\ LET col == AssignedColumn(df, JoinedFrame(EventData(df)))
               IN  df' = [p \in DOMAIN df |-> [df[p] EXCEPT !.eventList = col[p]]]
            /\ pc' = "remove_data_from_column"
            /\ UNCHANGED err
    /\ UNCHANGED <<status, response, data, calls, csv, ccVars, flVars>>

\* row[column_name][-1] in place of row[column_name][0].
LastOrEmpty(v) == IF v.l # <<>> THEN v.l[Len(v.l)] ELSE Str(<<>>)

\* lines 161-164: the first element of a non-empty list, '' for an empty one
FirstOrEmpty(v) == IF v.l # <<>> THEN v.l[1] ELSE Str(<<>>)

RemoveDataFromColumn ==
    /\ pc = "remove_data_from_column"
    /\ df' = [p \in DOMAIN df |-> [df[p] EXCEPT !.topics = FirstOrEmpty(df[p].topics)]]
    /\ pc' = "optimize_data"
    /\ UNCHANGED <<status, response, data, err, calls, csv, ccVars, flVars>>

\* line 170: drop_duplicates keeps the first of the rows equal on every column
RECURSIVE DropDuplicates(_, _)
DropDuplicates(frame, kept) ==
    IF frame = <<>> THEN kept
    ELSE DropDuplicates(Tail(frame),
                        IF \E p \in DOMAIN kept : RowEq(kept[p], Head(frame))
                        THEN kept ELSE Append(kept, Head(frame)))

\* line 171: reset_index(drop=True) numbers the rows 0..n-1
ResetIndex(frame) == [p \in DOMAIN frame |-> [frame[p] EXCEPT !.idx = p - 1]]

\* optimize_data without its reset_index.
OptimizedFrameNoReset(frame) == DropDuplicates(frame, <<>>)

OptimizedFrame(frame) == ResetIndex(DropDuplicates(frame, <<>>))

OptimizeData ==
    /\ pc = "optimize_data"
    /\ calls' = Append(calls, "optimize_data")
    /\ df' = OptimizedFrame(df)
    /\ pc' = "export_data"
    /\ UNCHANGED <<status, response, data, err, csv, ccVars, flVars>>

\* lines 184-189: to_csv(index=None) writes the cells, not the index
ExportData ==
    /\ pc = "export_data"
    /\ calls' = Append(calls, "export_data")
    /\ csv' = List([p \in DOMAIN df |-> Cells(df[p])])
    /\ pc' = "done"
    /\ UNCHANGED <<status, response, data, df, err, ccVars, flVars>>

Next ==
    \/ ScrapeData
    \/ ConvertDataToDf
    \/ FilterIds
    \/ SortValues
    \/ CleanColumnContact
    \/ CleanColumnEventList
    \/ RemoveDataFromColumn
    \/ OptimizeData
    \/ ExportData

Spec == Init /\ [][Next]_vars

(***************************************************************************)
(* Properties.                                                             *)
(***************************************************************************)
Flattening == {"convert_data_to_df", "clean_data", "optimize_data", "export_data"}

\* C1: when the response status is not 200, neither convert_data_to_df nor
\* clean_data, optimize_data or export_data is ever executed.
C1_NoFlattenAfterFailedFetch ==
    status # 200 => \A i \in DOMAIN calls : calls[i] \notin Flattening

\* The texts of the sub-fields of d that hold a value, in column order.
NonNullTexts(d, cols) ==
    LET ks == SelectSeq(cols, LAMBDA k : d[k].t = "str")
    IN  [j \in DOMAIN ks |-> d[ks[j]].s]

\* C2: every collapsed cell is the ", "-join of the unchanged texts of
\* exactly the sub-fields whose value is neither missing nor null.
C2_NullSkippingJoin ==
    cc_pc = "done" =>
        \A i \in DOMAIN cc_cells :
            cc_col[i] = Str(JoinText(NonNullTexts(cc_cells[i], FrameColumns(cc_cells))))

\* C3: the column the cleanup loop leaves is a fixed point of the cleanup
\* substitution: one more application changes no cell.
C3_CleanupFixedPoint ==
    cc_pc = "done" => \A i \in DOMAIN cc_col : ReSub(cc_col[i].s) = cc_col[i].s

\* C4: two rows with equal identifiers that both survive the filter keep,
\* after the sort, the relative order they had in the input.
C4_SortStable ==
    pc = "clean_column_contact" =>
        \A p, q \in DOMAIN df :
            (p < q /\ PyEq(df[p].noticeId, df[q].noticeId)) => df[p].idx < df[q].idx

FirstOccurrences(old) ==
    {p \in DOMAIN old : \A q \in 1..(p - 1) : ~RowEq(old[q], old[p])}

\* C6: after optimize_data no two rows are equal on every column, every
\* distinct row of the table before it appears exactly once, in the order of
\* the first occurrences, and the row indices are 0..n-1.
C6_Deduplicated ==
    [][(pc = "optimize_data" /\ pc' = "export_data") =>
        /\ \A p, q \in DOMAIN df' : p # q => ~RowEq(df'[p], df'[q])
        /\ \A p \in DOMAIN df : Cardinality({q \in DOMAIN df' : RowEq(df'[q], df[p])}) = 1
        /\ Len(df') = Cardinality(FirstOccurrences(df))
        /\ \A q \in DOMAIN df' :
              \E p \in FirstOccurrences(df) :
                  /\ Cells(df'[q]) = Cells(df[p])
                  /\ Cardinality({r \in FirstOccurrences(df) : r < p}) = q - 1
        /\ \A q \in DOMAIN df' : df'[q].idx = q - 1
      ]_vars

\* optimize_data has run and dropped a duplicate row.
C6_Witness ==
    /\ pc = "export_data"
    /\ df # <<>>
    /\ Len(df) < Cardinality({i \in DOMAIN response : response[i].noticeId.t \in {"int", "bool"}})

\* C7: the table convert_data_to_df produces has one row per record of the
\* section, whatever the shapes of the records' values.
C7_OneRowPerRecord ==
    fl_pc = "done" => fl_rows = Len(fl_records)

\* C8: remove_data_from_column makes "" of an empty list and the first
\* element of a non-empty one, in every row, and changes nothing else.
C8_Unwrapped ==
    [][(pc = "remove_data_from_column" /\ pc' = "optimize_data") =>
        /\ Len(df') = Len(df)
        /\ \A p \in DOMAIN df :
              /\ df[p].topics.l = <<>> => df'[p].topics = Str(<<>>)
              /\ df[p].topics.l # <<>> => df'[p].topics = Head(df[p].topics.l)
              /\ df'[p].idx = df[p].idx
              /\ df'[p].noticeId = df[p].noticeId
              /\ df'[p].contact = df[p].contact
              /\ df'[p].eventList = df[p].eventList
      ]_vars

\* A two-element list was cut to its first element, next to an empty list
\* that became "".
C8_Witness ==
    /\ pc = "optimize_data"
    /\ \E p, q \in DOMAIN df :
          /\ df[p].topics = Str(<<"v">>)
          /\ Len(response[df[p].idx + 1].topics.l) = 2
          /\ df[q].topics = Str(<<>>)
          /\ response[df[q].idx + 1].topics.l = <<>>

\* The nested contact value the row at position p held: that of the record
\* it was made of, null read as {}.
OwnContact(p) ==
    LET c == response[df[p].idx + 1].contact
    IN  IF c.t = "dict" THEN c.d ELSE EmptyDict

\* C9: after clean_column("contact") every row holds the collapsed text of
\* the nested value that same row held; no row holds another row's text and
\* none is left without one.
C9_RowCorrespondence ==
    pc = "clean_column_eventList" =>
        LET own == CleanupLoop(JoinedFrame([p \in DOMAIN df |-> OwnContact(p)]))
        IN  \A p \in DOMAIN df : df[p].contact = own[p]

\* C10: every iteration of the cleanup loop after which the exit test fails
\* has made some cell strictly shorter, and the loop reaches its break.
C10_LoopTerminates ==
    /\ [][(cc_pc = "loop" /\ cc_pc' = "loop") =>
            \E i \in DOMAIN cc_col : Len(cc_col'[i].s) < Len(cc_col[i].s)]_vars
    /\ (cc_pc = "loop") ~> (cc_pc = "done")

\* The exit test failed once and the loop broke after the next iteration.
C10_Witness ==
    /\ cc_pc = "done"
    /\ cc_passes = 2

=============================================================================
